---- MODULE Spec2Model ----
(***************************************************************************)
(* Mermaid preview extension: extraction of fenced mermaid blocks from the *)
(* document text, and the preview panel state machine (panel lifecycle,    *)
(* mode, debounced refresh, theme resolution, configuration writes).       *)
(*                                                                         *)
(* Strings are sequences of one-character strings.                         *)
(***************************************************************************)
EXTENDS Integers, Sequences, FiniteSets, TLC

(***************************************************************************)
(* Bounds of the model.                                                    *)
(***************************************************************************)
MaxChunks == 4
MaxPanels == 2
MaxWrites == 2
MaxPan == 10
MaxExports == 2
MaxRequests == 2

VARIABLES
    typedText,      \* the document text being typed (extraction specification)
    nChunks,        \* number of chunks typed into typedText
    docVersion,     \* per document: which of its texts getText() returns
    extracted,      \* what the extraction functions and the page return for the documents' texts
    activeEditor,   \* vscode.window.activeTextEditor's document, or NoDoc
    config,         \* the mermaidPreview configuration section
    colorTheme,     \* vscode.window.activeColorTheme.kind
    panels,         \* the MermaidPreviewPanel instances that are still referenced
    currentPanel,   \* MermaidPreviewPanel.currentPanel, or NoPanel
    timers,         \* the pending setTimeout timers
    writes,         \* config.update calls whose promise is not settled yet
    awaiting,       \* the settled previewAppearance writes whose handler has not resumed yet
    rendered,       \* the assignment to webview.html made by the last step
    calls,          \* per panel: the last updateContent call (history)
    saved,          \* the theme of the last completed theme write (history)
    view,           \* per panel: the state of the script of the page in its webview
    exports         \* the _handleExportDiagram calls and what each has done

vars == <<typedText, nChunks, docVersion, extracted, activeEditor, config, colorTheme, panels,
          currentPanel, timers, writes, awaiting, rendered, calls, saved, view, exports>>

panelVars == <<docVersion, extracted, activeEditor, config, colorTheme, panels,
               currentPanel, timers, writes, awaiting, rendered, calls, saved, view, exports>>

(***************************************************************************)
(* Characters and string helpers.                                          *)
(***************************************************************************)
\* the grave accent (U+0060), the fence character
BT == "GRAVE"
LF == "\n"
CR == "\r"

\* String.prototype.trim and \s: the whitespace characters of the alphabet
IsWhitespace(c) == c \in {" ", "\t", "\n", "\r"}

\* [^\S\r\n]: whitespace other than CR and LF
IsHorizontalSpace(c) == IsWhitespace(c) /\ c # CR /\ c # LF

SubStr(t, from, to) == IF from > to THEN <<>> ELSE SubSeq(t, from, to)

CharAt(t, i) == IF i >= 1 /\ i <= Len(t) THEN t[i] ELSE ""

StartsWith(t, i, w) ==
    /\ i >= 1
    /\ i + Len(w) - 1 <= Len(t)
    /\ \A k \in 1..Len(w) : t[i + k - 1] = w[k]

Fence == <<BT, BT, BT>>

\* the literal FFFmermaid of the regular expressions
OpenLiteral == Fence \o <<"m", "e", "r", "m", "a", "i", "d">>

RECURSIVE TrimStartIndex(_, _)
TrimStartIndex(s, i) ==
    IF i > Len(s) THEN i
    ELSE IF IsWhitespace(s[i]) THEN TrimStartIndex(s, i + 1) ELSE i

RECURSIVE TrimEndIndex(_, _)
TrimEndIndex(s, j) ==
    IF j < 1 THEN j
    ELSE IF IsWhitespace(s[j]) THEN TrimEndIndex(s, j - 1) ELSE j

\* String.prototype.trim
Trim(s) == SubStr(s, TrimStartIndex(s, 1), TrimEndIndex(s, Len(s)))

(***************************************************************************)
(* The regular expression                                                  *)
(*   /FFFmermaid[^\S\r\n]*(?:\r?\n)([\s\S]*?)(?:\r?\n)?FFF/g               *)
(* (F is the grave accent) as a backtracking matcher.                      *)
(* A failed sub-match is index 0.                                          *)
(***************************************************************************)

\* [^\S\r\n]* (greedy): index after the run of horizontal whitespace at i.
\* Giving characters back never helps: the next item needs CR or LF.
RECURSIVE SkipHorizontalSpace(_, _)
SkipHorizontalSpace(t, i) ==
    IF i <= Len(t) /\ IsHorizontalSpace(t[i])
    THEN SkipHorizontalSpace(t, i + 1)
    ELSE i

\* (variant of the line break that accepts LF only)
NewlineEndLFOnly(t, i) == IF CharAt(t, i) = LF THEN i + 1 ELSE 0

\* (?:\r?\n) at i: index after it, or 0
NewlineEnd(t, i) ==
    IF CharAt(t, i) = CR /\ CharAt(t, i + 1) = LF THEN i + 2
    ELSE IF CharAt(t, i) = LF THEN i + 1
    ELSE 0

\* FFFmermaid[^\S\r\n]*(?:\r?\n) at i: index of the first body character, or 0
OpenEnd(t, i) ==
    IF StartsWith(t, i, OpenLiteral)
    THEN NewlineEnd(t, SkipHorizontalSpace(t, i + Len(OpenLiteral)))
    ELSE 0

\* (?:\r?\n)?FFF at p (the optional group is greedy): index after it, or 0
CloseEnd(t, p) ==
    IF NewlineEnd(t, p) # 0 /\ StartsWith(t, NewlineEnd(t, p), Fence)
    THEN NewlineEnd(t, p) + 3
    ELSE IF StartsWith(t, p, Fence) THEN p + 3
    ELSE 0

\* ([\s\S]*?) (lazy): the first p >= s at which the rest of the pattern
\* matches, the group being t[s..p-1]; 0 when there is none
RECURSIVE LazyBodyEnd(_, _)
LazyBodyEnd(t, p) ==
    IF p > Len(t) + 1 THEN 0
    ELSE IF CloseEnd(t, p) # 0 THEN p
    ELSE LazyBodyEnd(t, p + 1)

NoMatch == [index |-> 0, group |-> <<>>, end |-> 0]

\* one attempt of the whole pattern at index i
MatchAt(t, i) ==
    LET s == OpenEnd(t, i)
        p == IF s = 0 THEN 0 ELSE LazyBodyEnd(t, s)
    IN  IF p = 0 THEN NoMatch
        ELSE [index |-> i, group |-> SubStr(t, s, p - 1), end |-> CloseEnd(t, p)]

\* text.matchAll(mermaidRegex) / repeated mermaidRegex.exec(text) from
\* lastIndex i: leftmost match, then on from its end
RECURSIVE MatchAll(_, _)
MatchAll(t, i) ==
    IF i > Len(t) THEN <<>>
    ELSE LET m == MatchAt(t, i)
         IN  IF m.index = 0 THEN MatchAll(t, i + 1)
             ELSE <<m>> \o MatchAll(t, m.end)

(***************************************************************************)
(* JSON.stringify / JSON.parse of an array of strings.                     *)
(***************************************************************************)
QUOTE == "\""
BSL == "\\"

JsonEscapeChar(c) ==
    IF c = QUOTE THEN <<BSL, QUOTE>>
    ELSE IF c = BSL THEN <<BSL, BSL>>
    ELSE IF c = LF THEN <<BSL, "n">>
    ELSE IF c = CR THEN <<BSL, "r">>
    ELSE IF c = "\t" THEN <<BSL, "t">>
    ELSE <<c>>

RECURSIVE JsonEscape(_)
JsonEscape(s) ==
    IF s = <<>> THEN <<>> ELSE JsonEscapeChar(Head(s)) \o JsonEscape(Tail(s))

JsonString(s) == <<QUOTE>> \o JsonEscape(s) \o <<QUOTE>>

RECURSIVE JsonItems(_)
JsonItems(list) ==
    IF list = <<>> THEN <<>>
    ELSE IF Len(list) = 1 THEN JsonString(list[1])
    ELSE JsonString(list[1]) \o <<",">> \o JsonItems(Tail(list))

\* JSON.stringify(array of strings)
JSONStringify(list) == <<"[">> \o JsonItems(list) \o <<"]">>

JsonUnescapeChar(c) ==
    IF c = "n" THEN LF
    ELSE IF c = "r" THEN CR
    ELSE IF c = "t" THEN "\t"
    ELSE c

\* the characters of a JSON string literal whose opening quote is before i:
\* [str |-> the string, next |-> index after the closing quote]
RECURSIVE JsonReadString(_, _, _)
JsonReadString(j, i, acc) ==
    IF i > Len(j) THEN [str |-> acc, next |-> i]
    ELSE IF j[i] = QUOTE THEN [str |-> acc, next |-> i + 1]
    ELSE IF j[i] = BSL
         THEN JsonReadString(j, i + 2, Append(acc, JsonUnescapeChar(CharAt(j, i + 1))))
    ELSE JsonReadString(j, i + 1, Append(acc, j[i]))

RECURSIVE JsonReadItems(_, _)
JsonReadItems(j, i) ==
    IF i > Len(j) \/ j[i] = "]" THEN <<>>
    ELSE IF j[i] = QUOTE
         THEN LET r == JsonReadString(j, i + 1, <<>>)
              IN  <<r.str>> \o JsonReadItems(j, r.next)
    ELSE JsonReadItems(j, i + 1)

\* JSON.parse of the output of JSON.stringify(array of strings)
JSONParse(j) == JsonReadItems(j, 2)

(***************************************************************************)
(* Extraction.  The result of a function returning string | null is        *)
(* [isNull, json].                                                         *)
(***************************************************************************)
NullResult == [isNull |-> TRUE, json |-> <<>>]

StringResult(s) == [isNull |-> FALSE, json |-> s]

NonEmpty(code) == Len(code) > 0

\* (variant of the map that does not trim)
GroupsUntrimmed(matches) == [k \in 1..Len(matches) |-> matches[k].group]

\* matches.map(match => match[1].trim())
RECURSIVE TrimmedGroups(_)
TrimmedGroups(matches) ==
    IF matches = <<>> THEN <<>>
    ELSE <<Trim(Head(matches).group)>> \o TrimmedGroups(Tail(matches))

\* (variant of the filter that keeps empty bodies)
FilterKeepsEmpty(codes) == codes

\* .filter(code => code.length > 0)
FilterDiagrams(codes) == SelectSeq(codes, NonEmpty)

ExtractMermaidCode(text) ==
    LET matches == MatchAll(text, 1)
        diagrams == FilterDiagrams(TrimmedGroups(matches))
    IN  IF Len(matches) = 0 THEN NullResult
        ELSE IF Len(diagrams) = 0 THEN NullResult
        ELSE StringResult(JSONStringify(diagrams))

\* document.positionAt(offset).line for the 0-based offset i - 1: the number
\* of line breaks before index i
RECURSIVE LineOfIndex(_, _)
LineOfIndex(t, i) ==
    IF i <= 1 THEN 0
    ELSE LineOfIndex(t, i - 1) + (IF CharAt(t, i - 1) = LF THEN 1 ELSE 0)

\* (variant of the loop that returns at the first block containing the line)
RECURSIVE FirstBlockAtLine(_, _, _)
FirstBlockAtLine(t, matches, lineNumber) ==
    IF matches = <<>> THEN NullResult
    ELSE LET m == Head(matches)
             startLine == LineOfIndex(t, m.index)
             endLine == LineOfIndex(t, m.end)
             diagramCode == Trim(m.group)
         IN  IF lineNumber >= startLine /\ lineNumber <= endLine
             THEN (IF Len(diagramCode) > 0 THEN StringResult(JSONStringify(<<diagramCode>>))
                   ELSE NullResult)
             ELSE FirstBlockAtLine(t, Tail(matches), lineNumber)

\* the while loop of _extractMermaidCodeAtLine over the matches in order
RECURSIVE FirstDiagramAtLine(_, _, _)
FirstDiagramAtLine(t, matches, lineNumber) ==
    IF matches = <<>> THEN NullResult
    ELSE LET m == Head(matches)
             startLine == LineOfIndex(t, m.index)
             endLine == LineOfIndex(t, m.end)
             diagramCode == Trim(m.group)
         IN  IF lineNumber >= startLine /\ lineNumber <= endLine /\ Len(diagramCode) > 0
             THEN StringResult(JSONStringify(<<diagramCode>>))
             ELSE FirstDiagramAtLine(t, Tail(matches), lineNumber)

ExtractMermaidCodeAtLine(text, lineNumber) ==
    FirstDiagramAtLine(text, MatchAll(text, 1), lineNumber)

(***************************************************************************)
(* Documents.  A document is a live TextDocument object: getText() returns *)
(* its current text.                                                       *)
(***************************************************************************)
NoDoc == ""

Docs == {"a.md", "b.md", "c.txt"}

LanguageId(d) == IF d = "c.txt" THEN "plaintext" ELSE "markdown"

OpenLine == OpenLiteral \o <<LF>>

CloseLine == Fence \o <<LF>>

\* two diagrams (lines 0-2 and 6-8) around an empty block (lines 3-4)
TextTwoDiagrams ==
    OpenLine \o <<"A", LF>> \o CloseLine \o OpenLine \o CloseLine \o
    <<"x", LF>> \o OpenLine \o <<"B", LF>> \o Fence

\* one diagram (lines 1-3) after a heading line
TextOneDiagram == <<"h", LF>> \o OpenLine \o <<"C", LF>> \o CloseLine

TextNoDiagram == <<"h", LF, "x", LF>>

\* document.getText(): a.md alternates between two texts as it is edited;
\* an edit of another document leaves its text as it was
GetText(d, versions) ==
    IF d = "a.md"
    THEN (IF versions[d] = 1 THEN TextTwoDiagrams ELSE TextOneDiagram)
    ELSE IF d = "b.md" THEN TextNoDiagram
    ELSE TextOneDiagram

\* the text of d after one more edit
Edited(d, version) == IF d = "a.md" THEN (IF version = 1 THEN 2 ELSE 1) ELSE version

SampleTexts == {TextTwoDiagrams, TextOneDiagram, TextNoDiagram}

\* provideCodeLenses: the lines of the Preview Diagram lenses of a text, one
\* per match of /FFFmermaid[^\S\r\n]*(?:\r?\n)/g
ProvideCodeLenses(t) == {LineOfIndex(t, i) : i \in {j \in 1..Len(t) : OpenEnd(t, j) # 0}}

\* the lines of a text
LinesOf(t) == 0..LineOfIndex(t, Len(t) + 1)

\* what provideCodeLenses, _extractMermaidCode and _extractMermaidCodeAtLine
\* return for the texts of the documents: the functions are pure, so each
\* text is evaluated once (when the documents are opened) and looked up after
Extraction(t) ==
    [lenses |-> ProvideCodeLenses(t),
     code |-> ExtractMermaidCode(t),
     codeAtLine |-> [l \in LinesOf(t) |-> ExtractMermaidCodeAtLine(t, l)]]

\* the JSON strings the extraction functions return for text t
ExtractedJson(t) ==
    LET e == Extraction(t)
    IN  {e.code.json} \cup {e.codeAtLine[l].json : l \in LinesOf(t)}

CodeLenses(t) == extracted.texts[t].lenses

DocumentCode(t) == extracted.texts[t].code

DocumentCodeAtLine(t, l) ==
    IF l \in DOMAIN extracted.texts[t].codeAtLine THEN extracted.texts[t].codeAtLine[l]
    ELSE ExtractMermaidCodeAtLine(t, l)

(***************************************************************************)
(* Configuration and themes.                                               *)
(***************************************************************************)
\* an absent or empty theme string (both are falsy)
NoTheme == ""

\* the themes the webview's theme menu sends
MessageThemes == {"forest"}

Appearances == {"matchVSCode", "light", "dark"}

ColorThemeKinds == {"Light", "Dark", "HighContrast"}

Delays == {1, 2}

\* (variant of _resolveTheme that follows the editor whatever useVSCodeTheme is)
ResolveThemeAlwaysSynced(overrideTheme, cfg, kind) ==
    [theme |-> IF overrideTheme # NoTheme THEN overrideTheme
               ELSE IF kind = "Dark" THEN "dark" ELSE "default",
     appearance |-> cfg.previewAppearance]

\* (variant of _resolveTheme whose useVSCodeTheme branch does not test the override)
ResolveThemeOverrideLast(overrideTheme, cfg, kind) ==
    [theme |->
        IF cfg.useVSCodeTheme
        THEN (IF cfg.previewAppearance = "light" THEN "default"
              ELSE IF cfg.previewAppearance = "dark" THEN "dark"
              ELSE IF kind = "Dark" THEN "dark" ELSE "default")
        ELSE IF overrideTheme # NoTheme THEN overrideTheme ELSE cfg.theme,
     appearance |-> cfg.previewAppearance]

\* `override || configured` and the useVSCodeTheme branch of _resolveTheme
ResolveTheme(overrideTheme, cfg, kind) ==
    LET configuredTheme == cfg.theme
        theme == IF overrideTheme # NoTheme THEN overrideTheme ELSE configuredTheme
    IN  [theme |->
            IF cfg.useVSCodeTheme /\ overrideTheme = NoTheme
            THEN (IF cfg.previewAppearance = "light" THEN "default"
                  ELSE IF cfg.previewAppearance = "dark" THEN "dark"
                  ELSE IF kind = "Dark" THEN "dark" ELSE "default")
            ELSE theme,
         appearance |-> cfg.previewAppearance]

(***************************************************************************)
(* The pages assigned to webview.html.                                     *)
(***************************************************************************)
MsgNoDocument == "No document to preview"

\* (the fence characters of the message are left out)
MsgNoDiagram == "No Mermaid diagram found. Wrap your diagram in mermaid code blocks."

MsgNoDiagramAtPosition == "No Mermaid diagram found at this position."

NoHtml == [page |-> "none", message |-> "", diagrams |-> <<>>,
           theme |-> NoTheme, appearance |-> ""]

GetErrorHtml(message) ==
    [page |-> "error", message |-> message, diagrams |-> <<>>,
     theme |-> NoTheme, appearance |-> ""]

\* String.prototype.replace(/c/g, w): every character c of s replaced by w
RECURSIVE ReplaceAll(_, _, _)
ReplaceAll(s, c, w) ==
    IF s = <<>> THEN <<>>
    ELSE (IF Head(s) = c THEN w ELSE <<Head(s)>>) \o ReplaceAll(Tail(s), c, w)

\* code.replace(backslash).replace(grave accent).replace(dollar), each
\* character getting a backslash before it
EscapeDiagram(code) ==
    ReplaceAll(ReplaceAll(ReplaceAll(code, BSL, <<BSL, BSL>>), BT, <<BSL, BT>>),
               "$", <<BSL, "$">>)

\* diagrams.map(code => ...)
EscapedDiagrams(diagrams) == [k \in 1..Len(diagrams) |-> EscapeDiagram(diagrams[k])]

\* the array the page's script has in its const diagrams: the page text holds
\* JSON.stringify(escapedDiagrams) as an array literal, which the script
\* evaluates
ScriptDiagrams(mermaidCode) ==
    JSONParse(JSONStringify(EscapedDiagrams(JSONParse(mermaidCode))))

\* what the extraction functions return for each of the texts and, for each
\* JSON string they return, the diagrams array of the page made from it
ExtractionOf(texts) ==
    [texts |-> [t \in texts |-> Extraction(t)],
     scripts |-> [j \in UNION {ExtractedJson(t) : t \in texts} |-> ScriptDiagrams(j)]]

\* (looked up for the JSON strings of the documents' texts)
PageDiagrams(mermaidCode) ==
    IF mermaidCode \in DOMAIN extracted.scripts THEN extracted.scripts[mermaidCode]
    ELSE ScriptDiagrams(mermaidCode)

\* the diagram page: the script's diagrams, currentTheme, currentAppearance
GetHtmlForWebview(mermaidCode, theme, appearance) ==
    [page |-> "diagrams", message |-> "", diagrams |-> PageDiagrams(mermaidCode),
     theme |-> theme, appearance |-> appearance]

(***************************************************************************)
(* Panels.                                                                 *)
(***************************************************************************)
NoPanel == 0

NoLine == -1

NoTimer == 0

PanelIds == 1..MaxPanels

AbsentPanel ==
    [state |-> "absent", createdBy |-> "none", mode |-> "all", singleLine |-> NoLine,
     currentDocument |-> NoDoc, updateTimeout |-> NoTimer, showsDiagrams |-> FALSE]

\* what dispose() leaves: only a pending timer or a suspended handler still
\* refers to the object
DisposedPanel(panel) ==
    [AbsentPanel EXCEPT !.state = "disposed", !.createdBy = panel.createdBy]

\* a pending timer, a pending write or a suspended handler refers to panel id
Referenced(id, ts, ws, aw) ==
    \/ \E t \in ts : t.panel = id
    \/ \E w \in ws : w.cont = id
    \/ \E w \in aw : w.cont = id

\* the panels without the disposed ones nothing refers to any more
Collected(ps, ts, ws, aw) ==
    [id \in PanelIds |->
        IF ps[id].state = "disposed" /\ ~Referenced(id, ts, ws, aw)
        THEN AbsentPanel ELSE ps[id]]

\* (variant of the constructor that does not store the line)
NewPanelWithoutLine(document, mode, singleLine) ==
    [state |-> "open", createdBy |-> "none", mode |-> mode, singleLine |-> NoLine,
     currentDocument |-> document, updateTimeout |-> NoTimer, showsDiagrams |-> FALSE]

\* the constructor's field assignments (before its first _render)
NewPanel(document, mode, singleLine) ==
    [state |-> "open", createdBy |-> "none", mode |-> mode, singleLine |-> singleLine,
     currentDocument |-> document, updateTimeout |-> NoTimer, showsDiagrams |-> FALSE]

SetMode(panel, mode, lineNumber) ==
    [panel EXCEPT !.mode = mode, !.singleLine = lineNumber]

\* (variant of _renderAll without the test of the extraction's result)
RenderAllUnchecked(panel, overrideTheme, cfg, kind) ==
    IF panel.currentDocument = NoDoc THEN GetErrorHtml(MsgNoDocument)
    ELSE LET mermaidCode == DocumentCode(GetText(panel.currentDocument, docVersion))
             resolved == ResolveTheme(overrideTheme, cfg, kind)
         IN  GetHtmlForWebview(mermaidCode.json, resolved.theme, resolved.appearance)

RenderAll(panel, overrideTheme, cfg, kind) ==
    IF panel.currentDocument = NoDoc THEN GetErrorHtml(MsgNoDocument)
    ELSE LET mermaidCode == DocumentCode(GetText(panel.currentDocument, docVersion))
             resolved == ResolveTheme(overrideTheme, cfg, kind)
         IN  IF mermaidCode.isNull THEN GetErrorHtml(MsgNoDiagram)
             ELSE GetHtmlForWebview(mermaidCode.json, resolved.theme, resolved.appearance)

RenderSingle(panel, lineNumber, overrideTheme, cfg, kind) ==
    IF panel.currentDocument = NoDoc THEN GetErrorHtml(MsgNoDocument)
    ELSE LET mermaidCode ==
                 DocumentCodeAtLine(GetText(panel.currentDocument, docVersion), lineNumber)
             resolved == ResolveTheme(overrideTheme, cfg, kind)
         IN  IF mermaidCode.isNull THEN GetErrorHtml(MsgNoDiagramAtPosition)
             ELSE GetHtmlForWebview(mermaidCode.json, resolved.theme, resolved.appearance)

\* (variant of _render without the mode test)
RenderAlwaysAll(panel, overrideTheme, cfg, kind) ==
    RenderAll(panel, overrideTheme, cfg, kind)

\* _render: the html it assigns
Render(panel, overrideTheme, cfg, kind) ==
    IF panel.mode = "single" /\ panel.singleLine # NoLine
    THEN RenderSingle(panel, panel.singleLine, overrideTheme, cfg, kind)
    ELSE RenderAll(panel, overrideTheme, cfg, kind)

\* vscode.ViewColumn.Active and vscode.ViewColumn.Beside
ViewColumns == {"Active", "Beside"}

NoColumn == ""

NoRender == [by |-> "", panel |-> NoPanel, override |-> NoTheme, doc |-> NoDoc,
             html |-> NoHtml, revealed |-> NoColumn]

\* an assignment to the html of a webview that has been disposed
DisposedHtml == [NoHtml EXCEPT !.page = "disposed"]

\* the record of one assignment to the webview.html of panel id by _render,
\* called from handler by
Rendering(by, id, panel, overrideTheme, cfg, kind) ==
    [by |-> by, panel |-> id, override |-> overrideTheme, doc |-> panel.currentDocument,
     html |-> IF panel.state = "disposed" THEN DisposedHtml
              ELSE Render(panel, overrideTheme, cfg, kind),
     revealed |-> NoColumn]

\* the panel after webview.html has been assigned
Shown(panel, html) == [panel EXCEPT !.showsDiagrams = (html.page = "diagrams")]

\* the history of a panel's updateContent calls since its last timer render:
\* the last call's document and delay, the time since it, whether
\* createOrShow has replaced the document since, and whether an earlier
\* call's timer was cancelled
NoCall == [doc |-> NoDoc, delay |-> 0, since |-> 0, switched |-> FALSE,
           cancelled |-> FALSE]

\* the slot of the next panel object, or NoPanel when all are taken
NextPanelId ==
    IF \E id \in PanelIds : panels[id].state = "absent"
    THEN CHOOSE id \in PanelIds :
            /\ panels[id].state = "absent"
            /\ \A j \in PanelIds : j < id => panels[j].state # "absent"
    ELSE NoPanel

\* (variant of _switchToAllMode that keeps the panel's document)
SwitchToAllModeKeepingDocument(panel, document) == SetMode(panel, "all", NoLine)

SwitchToAllMode(panel, document) ==
    SetMode([panel EXCEPT !.currentDocument = document], "all", NoLine)

\* (only updateContentAtLine calls it, and nothing calls updateContentAtLine)
SwitchToSingleMode(panel, document, lineNumber) ==
    SetMode([panel EXCEPT !.currentDocument = document], "single", lineNumber)

(***************************************************************************)
(* Timers.  A timer is [panel, id, remaining]; the panel's _updateTimeout  *)
(* is the id of the timer it armed last.                                   *)
(***************************************************************************)
TimersOf(ts, id) == {t \in ts : t.panel = id}

\* (variant of updateContent's clearing that leaves the pending timer)
ClearTimeoutSkipped(ts, id, handle) == ts

\* if (this._updateTimeout) clearTimeout(this._updateTimeout)
ClearTimeout(ts, id, handle) ==
    IF handle # NoTimer THEN {t \in ts : ~(t.panel = id /\ t.id = handle)} ELSE ts

\* a handle no pending timer of the panel has
NewTimerId(ts, id) ==
    CHOOSE n \in 1..(Cardinality(TimersOf(ts, id)) + 1) :
        /\ \A t \in TimersOf(ts, id) : t.id # n
        /\ \A m \in 1..(n - 1) : \E t \in TimersOf(ts, id) : t.id = m

\* setTimeout(() => this._render(), delay)
SetTimeout(ts, id, delay) ==
    ts \cup {[panel |-> id, id |-> NewTimerId(ts, id), remaining |-> delay]}

MaxDelay == CHOOSE d \in Delays : \A e \in Delays : e <= d

\* updateContent(document) on panel id
UpdateContent(id, document) ==
    LET panel == panels[id]
        cleared == ClearTimeout(timers, id, panel.updateTimeout)
        delay == config.refreshDelay
    IN  IF panel.mode # "all"
        THEN /\ panels' = [panels EXCEPT ![id].currentDocument = document]
             /\ UNCHANGED <<timers, calls>>
        ELSE /\ timers' = SetTimeout(cleared, id, delay)
             /\ panels' = [panels EXCEPT ![id].currentDocument = document,
                                         ![id].updateTimeout = NewTimerId(cleared, id)]
             /\ calls' = [calls EXCEPT ![id] =
                            [doc |-> document, delay |-> delay, since |-> 0,
                             switched |-> FALSE,
                             cancelled |-> (@.cancelled \/ cleared # timers)]]

(***************************************************************************)
(* The script of the diagram page: zoom and pan.  currentZoom is kept in   *)
(* tenths (the values the floating-point variable can take are the         *)
(* multiples of 0.1 from 0.5 to 5.0, up to rounding); panX and panY are in *)
(* pixels.                                                                 *)
(***************************************************************************)
DefaultZoom == 10

ZoomStep == 1

MinZoom == 5

MaxZoom == 50

Min(a, b) == IF a <= b THEN a ELSE b

Max(a, b) == IF a >= b THEN a ELSE b

\* let currentZoom = 1.0; let panX = 0; let panY = 0; let isPanning = false;
\* exportCalls are the calls of exportDiagram made on the page, each with
\* where it is and the messages it has posted
InitialView ==
    [currentZoom |-> DefaultZoom, panX |-> 0, panY |-> 0, isPanning |-> FALSE,
     exportCalls |-> <<>>]

\* a page assigned to webview.html starts its script from the initial state
\* (the script of the page it replaces, its pending calls included, is gone)
Loaded(v, r) ==
    IF r.panel = NoPanel \/ r.html.page = "disposed" THEN v
    ELSE [v EXCEPT ![r.panel] = InitialView]

\* (variant of zoomIn without the upper limit)
ZoomInUnlimited(v) == [v EXCEPT !.currentZoom = @ + ZoomStep]

\* window.zoomIn
ZoomIn(v) == [v EXCEPT !.currentZoom = Min(@ + ZoomStep, MaxZoom)]

\* window.zoomOut
ZoomOut(v) == [v EXCEPT !.currentZoom = Max(@ - ZoomStep, MinZoom)]

\* window.zoomReset
ZoomReset(v) == [v EXCEPT !.currentZoom = DefaultZoom, !.panX = 0, !.panY = 0]

\* handleWheel(event)
HandleWheel(v, ctrlKey, deltaY) ==
    IF ~ctrlKey THEN v
    ELSE IF deltaY < 0 THEN ZoomIn(v) ELSE ZoomOut(v)

\* startPan(event) outside the dropdowns
StartPan(v) == [v EXCEPT !.isPanning = TRUE]

\* panMove(event): the pointer has moved by dx, dy pixels since the last
\* event; panX += dx / currentZoom (the moves of the model are multiples of
\* the zoom, so the division is exact)
PanMove(v, dx, dy) ==
    IF ~v.isPanning THEN v
    ELSE [v EXCEPT !.panX = @ + (dx * 10) \div v.currentZoom,
                   !.panY = @ + (dy * 10) \div v.currentZoom]

\* endPan(event)
EndPan(v) == [v EXCEPT !.isPanning = FALSE]

\* vscode.postMessage of the exportDiagram message; its data stands for the
\* base64 string made of the svg element of diagram index (the SVG is the
\* rendering library's)
ExportDiagramPost(format, index) ==
    [command |-> "exportDiagram", format |-> format,
     data |-> <<"base64", index, format>>, index |-> index]

\* notifyExportError(message, format)
NotifyExportError(format) ==
    [command |-> "exportError", format |-> format, data |-> <<>>, index |-> -1]

\* exportDiagram(index, format) up to its return or its await: svgEl tells
\* whether the diagram has an svg element, ok whether serializing succeeds
ExportDiagram(v, index, format, svgEl, ok) ==
    LET call(state, replies) ==
            [index |-> index, format |-> format, svgEl |-> svgEl, state |-> state,
             replies |-> replies]
    IN  [v EXCEPT !.exportCalls = Append(@,
            IF ~svgEl THEN call("returned", <<>>)
            ELSE IF format = "svg"
            THEN call("done", << IF ok THEN ExportDiagramPost("svg", index)
                                 ELSE NotifyExportError(format) >>)
            ELSE call("raster", <<>>))]

\* exportDiagram after await rasterizeSvg(svgEl, format): the promise has
\* resolved (ok) or rejected
RasterSettled(v, r, ok) ==
    LET c == v.exportCalls[r]
    IN  [v EXCEPT !.exportCalls[r] =
            [c EXCEPT !.state = "done",
                      !.replies = Append(@, IF ok THEN ExportDiagramPost(c.format, c.index)
                                            ELSE NotifyExportError(c.format))]]

(***************************************************************************)
(* Commands.                                                               *)
(***************************************************************************)
\* MermaidPreviewPanel.createOrShow(extensionUri, document, viewColumn)
\* (rendered records the _render of _switchToAllMode and the reveal after it)
CreateOrShow(document, viewColumn) ==
    IF currentPanel # NoPanel
    THEN LET panel == SwitchToAllMode(panels[currentPanel], document)
             r == Rendering("switchToAllMode", currentPanel, panel, NoTheme, config, colorTheme)
         IN  /\ panels' = [panels EXCEPT ![currentPanel] = Shown(panel, r.html)]
             /\ rendered' = [r EXCEPT !.revealed = viewColumn]
             /\ calls' = [calls EXCEPT ![currentPanel].switched = (@ \/ calls[currentPanel].doc # NoDoc)]
             /\ UNCHANGED currentPanel
    ELSE /\ NextPanelId # NoPanel
         /\ LET id == NextPanelId
                panel == [NewPanel(document, "all", NoLine) EXCEPT !.createdBy = "createOrShow"]
                r == Rendering("constructor", id, panel, NoTheme, config, colorTheme)
            IN  /\ panels' = [panels EXCEPT ![id] = Shown(panel, r.html)]
                /\ rendered' = r
                /\ currentPanel' = id
                /\ UNCHANGED calls

\* MermaidPreviewPanel.createOrShowSingle(extensionUri, document, lineNumber, viewColumn)
CreateOrShowSingle(document, lineNumber) ==
    /\ NextPanelId # NoPanel
    /\ LET id == NextPanelId
           panel == [NewPanel(document, "single", lineNumber)
                        EXCEPT !.createdBy = "createOrShowSingle"]
           r == Rendering("constructor", id, panel, NoTheme, config, colorTheme)
       IN  /\ panels' = [panels EXCEPT ![id] = Shown(panel, r.html)]
           /\ rendered' = r

\* the commands mermaid-preview.showPreview and mermaid-preview.showPreviewToSide
\* (they differ in the view column only)
ShowPreviewIn(viewColumn) ==
    /\ activeEditor # NoDoc
    /\ CreateOrShow(activeEditor, viewColumn)
    /\ view' = Loaded(view, rendered')
    /\ UNCHANGED <<exports, typedText, nChunks, extracted, docVersion, activeEditor, config, colorTheme,
                   timers, writes, awaiting, saved>>

ShowPreview == ShowPreviewIn("Active")

ShowPreviewToSide == ShowPreviewIn("Beside")

\* the command mermaid-preview.showDiagramAtPosition(uri, line)
ShowDiagramAtPosition(document, line) ==
    /\ CreateOrShowSingle(document, line)
    /\ view' = Loaded(view, rendered')
    /\ UNCHANGED <<exports, typedText, nChunks, extracted, docVersion, activeEditor, config, colorTheme,
                   currentPanel, timers, writes, awaiting, calls, saved>>

\* dispose(): clears currentPanel whichever panel this is; the pending timer
\* is not cleared
Dispose(id) ==
    /\ currentPanel' = NoPanel
    /\ panels' = Collected([panels EXCEPT ![id] = DisposedPanel(@)],
                           timers, writes, awaiting)

\* the user closes panel id: onDidDispose runs dispose()
ClosePanel(id) ==
    /\ panels[id].state = "open"
    /\ Dispose(id)
    /\ rendered' = NoRender
    /\ view' = Loaded(view, rendered')
    /\ UNCHANGED <<exports, typedText, nChunks, extracted, docVersion, activeEditor, config, colorTheme,
                   timers, writes, awaiting, calls, saved>>

(***************************************************************************)
(* Document and editor events.                                             *)
(***************************************************************************)
\* (variant of the handler's test that does not read autoRefresh)
RefreshesOnChangeAlways(cfg, d) == LanguageId(d) = "markdown" /\ currentPanel # NoPanel

\* autoRefresh && e.document.languageId === 'markdown' && MermaidPreviewPanel.currentPanel
RefreshesOnChange(cfg, d) ==
    cfg.autoRefresh /\ LanguageId(d) = "markdown" /\ currentPanel # NoPanel

\* an edit of document d, then the onDidChangeTextDocument handler
ChangeTextDocument(d) ==
    /\ docVersion' = [docVersion EXCEPT ![d] = Edited(d, @)]
    /\ IF RefreshesOnChange(config, d)
       THEN UpdateContent(currentPanel, d)
       ELSE UNCHANGED <<panels, timers, calls>>
    /\ rendered' = NoRender
    /\ view' = Loaded(view, rendered')
    /\ UNCHANGED <<exports, typedText, nChunks, extracted, activeEditor, config, colorTheme, currentPanel,
                   writes, awaiting, saved>>

\* (variant of the handler's test without the languageId)
RefreshesOnEditorOfAnyLanguage(e) == e # NoDoc /\ currentPanel # NoPanel

\* editor && editor.document.languageId === 'markdown' && MermaidPreviewPanel.currentPanel
RefreshesOnEditor(e) == e # NoDoc /\ LanguageId(e) = "markdown" /\ currentPanel # NoPanel

\* the active editor becomes e (NoDoc: none), then the
\* onDidChangeActiveTextEditor handler
ChangeActiveTextEditor(e) ==
    /\ e # activeEditor
    /\ activeEditor' = e
    /\ IF RefreshesOnEditor(e)
       THEN UpdateContent(currentPanel, e)
       ELSE UNCHANGED <<panels, timers, calls>>
    /\ rendered' = NoRender
    /\ view' = Loaded(view, rendered')
    /\ UNCHANGED <<exports, typedText, nChunks, extracted, docVersion, config, colorTheme, currentPanel,
                   writes, awaiting, saved>>

\* one unit of time passes
Tick ==
    /\ \E t \in timers : t.remaining > 0
    /\ timers' = {[t EXCEPT !.remaining = IF @ > 0 THEN @ - 1 ELSE 0] : t \in timers}
    /\ calls' = [id \in PanelIds |->
                    IF TimersOf(timers, id) # {} /\ calls[id].since < MaxDelay
                    THEN [calls[id] EXCEPT !.since = @ + 1]
                    ELSE calls[id]]
    /\ rendered' = NoRender
    /\ view' = Loaded(view, rendered')
    /\ UNCHANGED <<exports, typedText, nChunks, extracted, docVersion, activeEditor, config, colorTheme,
                   panels, currentPanel, writes, awaiting, saved>>

\* the callback of an expired timer: this._render()
TimerFires(t) ==
    /\ t \in timers
    /\ t.remaining = 0
    /\ timers' = timers \ {t}
    /\ LET r == Rendering("timer", t.panel, panels[t.panel], NoTheme, config, colorTheme)
       IN  /\ rendered' = r
           /\ panels' = Collected([panels EXCEPT ![t.panel] =
                                       IF @.state = "open" THEN Shown(@, r.html) ELSE @],
                                  timers', writes, awaiting)
    /\ calls' = [calls EXCEPT ![t.panel] = IF TimersOf(timers', t.panel) = {} THEN NoCall ELSE @]
    /\ view' = Loaded(view, rendered')
    /\ UNCHANGED <<exports, typedText, nChunks, extracted, docVersion, activeEditor, config, colorTheme,
                   currentPanel, writes, awaiting, saved>>

(***************************************************************************)
(* Configuration and theme events.                                         *)
(***************************************************************************)
\* (variant of refreshAppearance that returns without rendering)
RefreshAppearanceSkipped(by, id, cfg, kind) == NoRender

\* refreshAppearance() on panel id: the rendering it makes, or NoRender
RefreshAppearance(by, id, cfg, kind) ==
    IF panels[id].state # "disposed" /\ panels[id].currentDocument = NoDoc THEN NoRender
    ELSE Rendering(by, id, panels[id], NoTheme, cfg, kind)

\* the onDidChangeConfiguration handler after setting key has changed
ConfigChanged(key, cfg) ==
    LET r == IF key = "previewAppearance" /\ currentPanel # NoPanel
             THEN RefreshAppearance("configChanged", currentPanel, cfg, colorTheme)
             ELSE NoRender
    IN  /\ rendered' = r
        /\ panels' = IF r = NoRender THEN panels
                     ELSE [panels EXCEPT ![r.panel] = Shown(@, r.html)]

\* the user edits one mermaidPreview setting in the settings editor
UserUpdatesSetting(key, value) ==
    /\ config[key] # value
    /\ awaiting = {}
    /\ config' = [config EXCEPT ![key] = value]
    /\ ConfigChanged(key, config')
    /\ saved' = IF key \in {"theme", "useVSCodeTheme"} THEN NoTheme ELSE saved
    /\ view' = Loaded(view, rendered')
    /\ UNCHANGED <<exports, typedText, nChunks, extracted, docVersion, activeEditor, colorTheme,
                   currentPanel, timers, writes, awaiting, calls>>

Write(key, value, id) == [key |-> key, value |-> value, cont |-> id]

\* (variant of config.update that stores nothing)
WrittenValueDropped(w) == config[w.key]

\* the value a write stores (useVSCodeTheme is a boolean setting)
WrittenValue(w) == IF w.key = "useVSCodeTheme" THEN w.value = "true" ELSE w.value

\* (variant of _handleThemeChange's updates that leaves useVSCodeTheme alone)
ThemeChangeWritesThemeOnly(theme) == {Write("theme", theme, NoPanel)}

\* the two config.update calls of _handleThemeChange, neither awaited
ThemeChangeWrites(theme) ==
    {Write("useVSCodeTheme", "false", NoPanel), Write("theme", theme, NoPanel)}

\* a changeTheme message of the webview of panel id: _handleThemeChange(theme)
HandleThemeChange(id, theme) ==
    /\ panels[id].state = "open"
    /\ panels[id].showsDiagrams
    /\ writes' = writes \cup ThemeChangeWrites(theme)
    /\ Cardinality(writes') <= MaxWrites
    /\ LET r == Rendering("changeTheme", id, panels[id], theme, config, colorTheme)
       IN  /\ rendered' = r
           /\ panels' = [panels EXCEPT ![id] = Shown(@, r.html)]
    /\ view' = Loaded(view, rendered')
    /\ UNCHANGED <<exports, typedText, nChunks, extracted, docVersion, activeEditor, config, colorTheme,
                   currentPanel, timers, awaiting, calls, saved>>

\* a saveThemePreference message: _saveThemePreference(theme)
SaveThemePreference(id, theme) ==
    /\ panels[id].state = "open"
    /\ panels[id].showsDiagrams
    /\ writes' = writes \cup {Write("theme", theme, NoPanel)}
    /\ Cardinality(writes') <= MaxWrites
    /\ rendered' = NoRender
    /\ view' = Loaded(view, rendered')
    /\ UNCHANGED <<exports, typedText, nChunks, extracted, docVersion, activeEditor, config, colorTheme,
                   panels, currentPanel, timers, awaiting, calls, saved>>

\* (variant of _handleAppearanceChange that does not await the update)
HandleAppearanceChangeUnawaited(id, appearance) ==
    /\ panels[id].state = "open"
    /\ panels[id].showsDiagrams
    /\ writes' = writes \cup {Write("previewAppearance", appearance, id)}
    /\ Cardinality(writes') <= MaxWrites
    /\ awaiting' = awaiting \cup {Write("previewAppearance", appearance, id)}
    /\ rendered' = NoRender
    /\ view' = Loaded(view, rendered')
    /\ UNCHANGED <<exports, typedText, nChunks, extracted, docVersion, activeEditor, config, colorTheme,
                   panels, currentPanel, timers, calls, saved>>

\* a changeAppearance message: _handleAppearanceChange(appearance) up to its await
HandleAppearanceChange(id, appearance) ==
    /\ panels[id].state = "open"
    /\ panels[id].showsDiagrams
    /\ writes' = writes \cup {Write("previewAppearance", appearance, id)}
    /\ Cardinality(writes') <= MaxWrites
    /\ rendered' = NoRender
    /\ view' = Loaded(view, rendered')
    /\ UNCHANGED <<exports, typedText, nChunks, extracted, docVersion, activeEditor, config, colorTheme,
                   panels, currentPanel, timers, awaiting, calls, saved>>

\* a config.update completes: the setting changes, onDidChangeConfiguration
\* fires if it changed, and the promise resolves (the handler awaiting an
\* earlier update resumes before the next change of the configuration)
ConfigWriteCompletes(w) ==
    /\ w \in writes
    /\ awaiting = {}
    /\ writes' = writes \ {w}
    /\ config' = [config EXCEPT ![w.key] = WrittenValue(w)]
    /\ IF config' # config THEN ConfigChanged(w.key, config')
       ELSE rendered' = NoRender /\ UNCHANGED panels
    /\ awaiting' = IF w.cont # NoPanel THEN awaiting \cup {w} ELSE awaiting
    /\ saved' = IF w.key = "theme" THEN w.value ELSE saved
    /\ view' = Loaded(view, rendered')
    /\ UNCHANGED <<exports, typedText, nChunks, extracted, docVersion, activeEditor, colorTheme,
                   currentPanel, timers, calls>>

\* _handleAppearanceChange after its await: this.refreshAppearance()
AppearanceChangeResumes(id) ==
    /\ \E w \in awaiting : w.cont = id
    /\ awaiting' = {w \in awaiting : w.cont # id}
    /\ LET r == RefreshAppearance("changeAppearance", id, config, colorTheme)
       IN  /\ rendered' = r
           /\ panels' = Collected(IF r = NoRender \/ panels[id].state # "open" THEN panels
                                  ELSE [panels EXCEPT ![id] = Shown(@, r.html)],
                                  timers, writes, awaiting')
    /\ view' = Loaded(view, rendered')
    /\ UNCHANGED <<exports, typedText, nChunks, extracted, docVersion, activeEditor, config, colorTheme,
                   currentPanel, timers, writes, calls, saved>>

\* the editor's color theme becomes kind, then the
\* onDidChangeActiveColorTheme handler
ChangeActiveColorTheme(kind) ==
    /\ kind # colorTheme
    /\ colorTheme' = kind
    /\ LET r == IF currentPanel # NoPanel
                THEN RefreshAppearance("colorThemeChanged", currentPanel, config, kind)
                ELSE NoRender
       IN  /\ rendered' = r
           /\ panels' = IF r = NoRender THEN panels
                        ELSE [panels EXCEPT ![r.panel] = Shown(@, r.html)]
    /\ view' = Loaded(view, rendered')
    /\ UNCHANGED <<exports, typedText, nChunks, extracted, docVersion, activeEditor, config,
                   currentPanel, timers, writes, awaiting, calls, saved>>

(***************************************************************************)
(* The user's zoom and pan gestures in the webview of panel id.            *)
(***************************************************************************)
\* the page of panel id runs the script
ShowsScript(id) == panels[id].state = "open" /\ panels[id].showsDiagrams

\* the script of panel id goes from its state to state v
ViewBecomes(id, v) ==
    /\ ShowsScript(id)
    /\ view' = [view EXCEPT ![id] = v]
    /\ rendered' = NoRender
    /\ UNCHANGED <<exports, typedText, nChunks, extracted, docVersion, activeEditor, config,
                   colorTheme, panels, currentPanel, timers, writes, awaiting, calls, saved>>

ZoomInClicked(id) == ViewBecomes(id, ZoomIn(view[id]))

ZoomOutClicked(id) == ViewBecomes(id, ZoomOut(view[id]))

ZoomResetClicked(id) == ViewBecomes(id, ZoomReset(view[id]))

WheelTurned(id, ctrlKey, deltaY) == ViewBecomes(id, HandleWheel(view[id], ctrlKey, deltaY))

PointerDown(id) == ~view[id].isPanning /\ ViewBecomes(id, StartPan(view[id]))

\* an export button: window.exportActiveDiagram(format), while the page's
\* activeDiagramIndex has the given value
ExportActiveDiagramClicked(id, activeDiagramIndex, format, svgEl, ok) ==
    /\ Len(view[id].exportCalls) < MaxRequests
    /\ ViewBecomes(id, ExportDiagram(view[id], activeDiagramIndex, format, svgEl, ok))

\* the rasterizeSvg promise of call r settles
RasterSettles(id, r, ok) ==
    /\ r \in DOMAIN view[id].exportCalls
    /\ view[id].exportCalls[r].state = "raster"
    /\ ViewBecomes(id, RasterSettled(view[id], r, ok))

\* the pointer moves by kx, ky times the zoom (in tenths) pixels
PointerMoved(id, kx, ky) ==
    LET v == PanMove(view[id], kx * view[id].currentZoom, ky * view[id].currentZoom)
    IN  /\ v.panX \in -MaxPan..MaxPan
        /\ v.panY \in -MaxPan..MaxPan
        /\ ViewBecomes(id, v)

PointerUp(id) == view[id].isPanning /\ ViewBecomes(id, EndPan(view[id]))

(***************************************************************************)
(* Export: _handleExportDiagram(data, format, index).  exports is the      *)
(* sequence of the calls, each with what it has done so far.               *)
(***************************************************************************)
Base64Alphabet ==
    << "A", "B", "C", "D", "E", "F", "G", "H", "I", "J", "K", "L", "M", "N", "O", "P",
       "Q", "R", "S", "T", "U", "V", "W", "X", "Y", "Z", "a", "b", "c", "d", "e", "f",
       "g", "h", "i", "j", "k", "l", "m", "n", "o", "p", "q", "r", "s", "t", "u", "v",
       "w", "x", "y", "z", "0", "1", "2", "3", "4", "5", "6", "7", "8", "9", "+", "/" >>

\* the value of a base64 digit
Base64Value(c) == (CHOOSE k \in 1..64 : Base64Alphabet[k] = c) - 1

\* the digits of a base64 string before its padding
Base64Digits(data) == SelectSeq(data, LAMBDA c : c # "=")

\* the bytes of the digits from index i on: four digits are three bytes, a
\* last group of three digits two bytes, of two digits one byte
RECURSIVE Base64Bytes(_, _)
Base64Bytes(digits, i) ==
    LET left == Len(digits) - i + 1
        d(k) == IF k < left THEN Base64Value(digits[i + k]) ELSE 0
        n == d(0) * 262144 + d(1) * 4096 + d(2) * 64 + d(3)
        bytes == <<n \div 65536, (n \div 256) % 256, n % 256>>
    IN  IF left < 2 THEN <<>>
        ELSE IF left < 4 THEN SubSeq(bytes, 1, left - 1)
        ELSE bytes \o Base64Bytes(digits, i + 4)

\* Buffer.from(data, 'base64')
BufferFromBase64(data) == Base64Bytes(Base64Digits(data), 1)

ExportFormats == {"svg", "png", "jpg"}

\* the filters of the save dialog
Filters(format) ==
    IF format = "svg" THEN [name |-> "SVG Image", extensions |-> <<"svg">>]
    ELSE IF format = "png" THEN [name |-> "PNG Image", extensions |-> <<"png">>]
    ELSE IF format = "jpg" THEN [name |-> "JPEG Image", extensions |-> <<"jpg", "jpeg">>]
    ELSE [name |-> "", extensions |-> <<>>]

\* the template mermaid-diagram-${index + 1}.${format}
DefaultFileName(index, format) == <<"mermaid-diagram-", index + 1, ".", format>>

NoTarget == <<>>

\* the files the user picks in the save dialog
Targets == {<<"mermaid-diagram-", 1, ".", "svg">>, <<"out.png">>}

\* the base64 data of the messages
ExportData == {<<"Q", "Q", "=", "=">>, <<"Q", "U", "I", "=">>, <<"Q", "U", "J", "D">>}

\* the exportDiagram messages: [data, format, index]
ExportMessages ==
    { [data |-> <<"Q", "Q", "=", "=">>, format |-> "svg", index |-> 0],
      [data |-> <<"Q", "U", "I", "=">>, format |-> "svg", index |-> 1],
      [data |-> <<"Q", "U", "I", "=">>, format |-> "png", index |-> 0],
      [data |-> <<"Q", "U", "J", "D">>, format |-> "jpg", index |-> 1] }

\* a call that has shown its save dialog
NewExport(data, format, index) ==
    [data |-> data, format |-> format, index |-> index,
     suggested |-> DefaultFileName(index, format), filters |-> Filters(format),
     stage |-> "dialog", target |-> NoTarget, writeCalls |-> 0, content |-> <<>>,
     stored |-> FALSE, infos |-> 0, errors |-> 0]

\* an exportDiagram message of the webview of panel id: the handler runs up
\* to await showSaveDialog
ExportDiagramMessage(id, data, format, index) ==
    /\ ShowsScript(id)
    /\ Len(exports) < MaxExports
    /\ exports' = Append(exports, NewExport(data, format, index))
    /\ rendered' = NoRender
    /\ UNCHANGED <<view, typedText, nChunks, extracted, docVersion, activeEditor, config,
                   colorTheme, panels, currentPanel, timers, writes, awaiting, calls, saved>>

\* (variant of the handler that writes although the dialog was cancelled)
AfterDialogAlwaysWrites(job, uri) ==
    [job EXCEPT !.stage = "writing", !.target = uri, !.writeCalls = @ + 1,
                !.content = BufferFromBase64(job.data)]

\* the handler from the return of showSaveDialog to await writeFile
AfterDialog(job, uri) ==
    IF uri = NoTarget THEN [job EXCEPT !.stage = "done"]
    ELSE [job EXCEPT !.stage = "writing", !.target = uri, !.writeCalls = @ + 1,
                     !.content = BufferFromBase64(job.data)]

\* the save dialog of call j closes with uri (NoTarget: cancelled)
SaveDialogCloses(j, uri) ==
    /\ j \in DOMAIN exports
    /\ exports[j].stage = "dialog"
    /\ exports' = [exports EXCEPT ![j] = AfterDialog(@, uri)]
    /\ rendered' = NoRender
    /\ UNCHANGED <<view, typedText, nChunks, extracted, docVersion, activeEditor, config,
                   colorTheme, panels, currentPanel, timers, writes, awaiting, calls, saved>>

\* the handler after writeFile: showInformationMessage, or the catch block's
\* showErrorMessage
AfterWrite(job, ok) ==
    IF ok THEN [job EXCEPT !.stage = "done", !.stored = TRUE, !.infos = @ + 1]
    ELSE [job EXCEPT !.stage = "done", !.errors = @ + 1]

\* workspace.fs.writeFile of call j resolves (ok) or rejects
WriteFileSettles(j, ok) ==
    /\ j \in DOMAIN exports
    /\ exports[j].stage = "writing"
    /\ exports' = [exports EXCEPT ![j] = AfterWrite(@, ok)]
    /\ rendered' = NoRender
    /\ UNCHANGED <<view, typedText, nChunks, extracted, docVersion, activeEditor, config,
                   colorTheme, panels, currentPanel, timers, writes, awaiting, calls, saved>>

(***************************************************************************)
(* Typing a document text, chunk by chunk (extraction specification).      *)
(***************************************************************************)
\* the chunks: an opening fence line, an opening fence, a fence, a line feed,
\* a space and CR LF, a letter, a grave accent, an empty block
Chunks ==
    << OpenLiteral \o <<LF>>, OpenLiteral, Fence, <<LF>>, <<" ", CR, LF>>, <<"a">>, <<BT>>,
       OpenLiteral \o <<LF>> \o Fence >>

TypeChunk(c) ==
    /\ nChunks < MaxChunks
    /\ typedText' = typedText \o Chunks[c]
    /\ nChunks' = nChunks + 1
    /\ UNCHANGED panelVars

(***************************************************************************)
(* Specifications.                                                         *)
(***************************************************************************)
DefaultConfig ==
    [useVSCodeTheme |-> FALSE, theme |-> "default", previewAppearance |-> "matchVSCode",
     autoRefresh |-> TRUE, refreshDelay |-> 1]

InitPanels ==
    /\ typedText = <<>>
    /\ nChunks = 0
    /\ docVersion = [d \in Docs |-> 1]
    /\ extracted = ExtractionOf(SampleTexts)
    /\ activeEditor = "a.md"
    /\ panels = [id \in PanelIds |-> AbsentPanel]
    /\ currentPanel = NoPanel
    /\ timers = {}
    /\ writes = {}
    /\ awaiting = {}
    /\ rendered = NoRender
    /\ calls = [id \in PanelIds |-> NoCall]
    /\ saved = NoTheme
    /\ view = [id \in PanelIds |-> InitialView]
    /\ exports = <<>>

\* panel lifecycle and debounced refresh: the user's theme settings stay at
\* their defaults, refreshDelay at the value it has on activation
Init ==
    /\ InitPanels
    /\ config \in {[DefaultConfig EXCEPT !.autoRefresh = a, !.refreshDelay = n] :
                      a \in BOOLEAN, n \in Delays}
    /\ colorTheme = "Light"

Next ==
    \/ ShowPreview
    \/ ShowPreviewToSide
    \/ \E line \in CodeLenses(GetText("a.md", docVersion)) :
          ShowDiagramAtPosition("a.md", line)
    \/ \E id \in PanelIds : ClosePanel(id)
    \/ \E d \in Docs : ChangeTextDocument(d)
    \/ \E e \in Docs \cup {NoDoc} : ChangeActiveTextEditor(e)
    \/ Tick
    \/ \E t \in timers : TimerFires(t)
    \/ \E a \in BOOLEAN : UserUpdatesSetting("autoRefresh", a)

Spec == Init /\ [][Next]_vars

\* themes and appearance: the documents are not edited
InitTheme ==
    /\ InitPanels
    /\ config \in {[DefaultConfig EXCEPT !.useVSCodeTheme = u, !.theme = th,
                                         !.previewAppearance = ap] :
                      u \in BOOLEAN, th \in {"default"}, ap \in Appearances}
    /\ colorTheme \in ColorThemeKinds

NextTheme ==
    \/ ShowPreview
    \/ \E line \in CodeLenses(GetText("a.md", docVersion)) :
          ShowDiagramAtPosition("a.md", line)
    \/ \E id \in PanelIds : ClosePanel(id)
    \/ \E id \in PanelIds, th \in MessageThemes : HandleThemeChange(id, th)
    \/ \E id \in PanelIds, th \in MessageThemes : SaveThemePreference(id, th)
    \/ \E id \in PanelIds, ap \in Appearances :
          \* (the appearance menu is used to pick another appearance, while no
          \* configuration write is pending)
          writes = {} /\ ap # config.previewAppearance /\ HandleAppearanceChange(id, ap)
    \/ \E w \in writes : ConfigWriteCompletes(w)
    \/ \E id \in PanelIds : AppearanceChangeResumes(id)
    \/ \E kind \in ColorThemeKinds : ChangeActiveColorTheme(kind)
    \/ \E u \in BOOLEAN : UserUpdatesSetting("useVSCodeTheme", u)

SpecTheme == InitTheme /\ [][NextTheme]_vars

\* zoom and pan in the preview
NextZoom ==
    \/ ShowPreview
    \/ \E id \in PanelIds : ClosePanel(id)
    \/ \E id \in PanelIds : ZoomInClicked(id)
    \/ \E id \in PanelIds : ZoomOutClicked(id)
    \/ \E id \in PanelIds : ZoomResetClicked(id)
    \/ \E id \in PanelIds, ctrlKey \in BOOLEAN, deltaY \in {-1, 1} :
          WheelTurned(id, ctrlKey, deltaY)
    \/ \E id \in PanelIds : PointerDown(id)
    \/ \E id \in PanelIds, kx \in {-1, 0, 1}, ky \in {-1, 0, 1} : PointerMoved(id, kx, ky)
    \/ \E id \in PanelIds : PointerUp(id)

InitZoom == InitPanels /\ config = DefaultConfig /\ colorTheme = "Light"

SpecZoom == InitZoom /\ [][NextZoom]_vars

\* export of diagrams
NextExport ==
    \/ ShowPreview
    \/ \E id \in PanelIds : ClosePanel(id)
    \/ \E id \in PanelIds, m \in ExportMessages :
          ExportDiagramMessage(id, m.data, m.format, m.index)
    \/ \E j \in 1..MaxExports, uri \in Targets \cup {NoTarget} : SaveDialogCloses(j, uri)
    \/ \E j \in 1..MaxExports, ok \in BOOLEAN : WriteFileSettles(j, ok)

InitExport == InitPanels /\ config = DefaultConfig /\ colorTheme = "Light"

SpecExport == InitExport /\ [][NextExport]_vars

\* export requests in the webview of a preview that stays open, while the
\* document is edited
NextWebview ==
    \/ (currentPanel = NoPanel /\ ShowPreview)
    \/ \E id \in PanelIds, activeDiagramIndex \in {0, 1}, format \in ExportFormats,
          svgEl \in BOOLEAN, ok \in BOOLEAN :
          ExportActiveDiagramClicked(id, activeDiagramIndex, format, svgEl, ok)
    \/ \E id \in PanelIds, r \in 1..MaxRequests, ok \in BOOLEAN : RasterSettles(id, r, ok)
    \/ ChangeTextDocument("a.md")
    \/ Tick
    \/ \E t \in timers : TimerFires(t)

SpecWebview == InitExport /\ [][NextWebview]_vars

\* extraction from an arbitrary typed text
NextExtract == \E c \in 1..Len(Chunks) : TypeChunk(c)

InitExtract == InitPanels /\ config = DefaultConfig /\ colorTheme = "Light"

SpecExtract == InitExtract /\ [][NextExtract]_vars

(***************************************************************************)
(* Extraction claims (specification SpecExtract).  The fenced blocks of a  *)
(* text are described here without the matcher: an opening fence line is   *)
(* the literal, horizontal whitespace and a line break; the block's body   *)
(* runs up to the first fence after that line.                             *)
(***************************************************************************)
\* index of the first fence at or after p, or 0
RECURSIVE FirstFence(_, _)
FirstFence(t, p) ==
    IF p + 2 > Len(t) THEN 0
    ELSE IF t[p] = BT /\ t[p + 1] = BT /\ t[p + 2] = BT THEN p
    ELSE FirstFence(t, p + 1)

\* an opening fence line starts at i and the body starts at s
IsOpeningLine(t, i, s) ==
    /\ StartsWith(t, i, OpenLiteral)
    /\ \E k \in (i + Len(OpenLiteral))..(s - 1) :
          /\ \A j \in (i + Len(OpenLiteral))..(k - 1) : t[j] \in {" ", "\t"}
          /\ \/ t[k] = LF /\ s = k + 1
             \/ t[k] = CR /\ CharAt(t, k + 1) = LF /\ s = k + 2

BodyStart(t, i) ==
    IF StartsWith(t, i, OpenLiteral) /\ \E s \in (i + 1)..(Len(t) + 1) : IsOpeningLine(t, i, s)
    THEN CHOOSE s \in (i + 1)..(Len(t) + 1) : IsOpeningLine(t, i, s)
    ELSE 0

\* the text between the first and the last non-whitespace character
TrimmedBody(raw) ==
    LET black == {k \in 1..Len(raw) : raw[k] \notin {" ", "\t", LF, CR}}
    IN  IF black = {} THEN <<>>
        ELSE SubSeq(raw, CHOOSE a \in black : \A b \in black : a <= b,
                         CHOOSE a \in black : \A b \in black : a >= b)

\* the blocks from index i on, leftmost first and not overlapping:
\* [open, start, body, close] with start the index after the opening fence
\* line and close the index of the closing fence
RECURSIVE Blocks(_, _)
Blocks(t, i) ==
    IF i > Len(t) THEN <<>>
    ELSE LET s == BodyStart(t, i)
             q == IF s = 0 THEN 0 ELSE FirstFence(t, s)
         IN  IF q = 0 THEN Blocks(t, i + 1)
             ELSE <<[open |-> i, start |-> s, body |-> TrimmedBody(SubStr(t, s, q - 1)),
                     close |-> q]>>
                  \o Blocks(t, q + 3)

BodiesOf(blocks) == [k \in 1..Len(blocks) |-> blocks[k].body]

\* the trimmed bodies of the blocks of t that are not empty, in document order
DiagramBodies(t) == SelectSeq(BodiesOf(Blocks(t, 1)), NonEmpty)

RECURSIVE Rewritten(_, _, _, _, _)
Rewritten(t, k, S, c, D) ==
    IF k > Len(t) THEN <<>>
    ELSE (IF k \in S THEN <<c>> ELSE <<>>) \o (IF k \in D THEN <<>> ELSE <<t[k]>>)
         \o Rewritten(t, k + 1, S, c, D)

InsertedAt(t, S, c) == Rewritten(t, 1, S, c, {})

RemovedAt(t, D) == Rewritten(t, 1, {}, "", D)

\* the line feeds that end a line in LF style
LFSites(t) == {k \in 1..Len(t) : t[k] = LF /\ CharAt(t, k - 1) # CR}

\* the index after the word mermaid of each block's opening fence
OpeningFenceSites(blocks) ==
    {blocks[k].open + Len(OpenLiteral) : k \in 1..Len(blocks)}

\* the line break (LF, or CR and LF) immediately before the fence at q
LineBreakBefore(t, q) ==
    IF CharAt(t, q - 1) # LF THEN {}
    ELSE IF CharAt(t, q - 2) = CR THEN {q - 2, q - 1}
    ELSE {q - 1}

\* the blocks of t whose closing fence follows a line break of its own (not
\* the line break of the opening fence line)
ClosedOnOwnLine(t, blocks) ==
    {k \in 1..Len(blocks) :
        LET breaks == LineBreakBefore(t, blocks[k].close)
        IN  breaks # {} /\ \A n \in breaks : n >= blocks[k].start}

\* ... a line break that does not follow a grave accent
ClosedAfterBody(t, blocks) ==
    {k \in ClosedOnOwnLine(t, blocks) :
        LET breaks == LineBreakBefore(t, blocks[k].close)
        IN  \A n \in breaks : n - 1 \in breaks \/ CharAt(t, n - 1) # BT}

LineBreaksOf(t, blocks, ks) ==
    UNION {LineBreakBefore(t, blocks[k].close) : k \in ks}

StripCR(body) == SelectSeq(body, LAMBDA c : c # CR)

\* two results of _extractMermaidCode with the same diagrams: as many, in the
\* same order, each body the same up to CR characters
SameResults(a, b) ==
    LET da == JSONParse(a.json)
        db == JSONParse(b.json)
    IN  /\ a.isNull = b.isNull
        /\ Len(da) = Len(db)
        /\ \A k \in 1..Len(da) : StripCR(da[k]) = StripCR(db[k])

\* u is extracted as the text whose result is r
SameDiagrams(r, u) == SameResults(r, ExtractMermaidCode(u))

\* the sets of at most two sites, and the set of all sites
SomeOf(sites) == {S \in SUBSET sites : Cardinality(S) <= 2 \/ S = sites}

CRLFInsensitive(t, r) ==
    \A S \in SomeOf(LFSites(t)) : SameDiagrams(r, InsertedAt(t, S, CR))

FenceSpaceInsensitive(t, r, blocks) ==
    \A S \in SUBSET OpeningFenceSites(blocks) : \A c \in {" ", "\t"} :
        SameDiagrams(r, InsertedAt(t, S, c))

\* omitting the line break before the closing fence of any of the blocks ks
LineBreakInsensitive(t, r, blocks, sites) ==
    \A ks \in SUBSET sites :
        SameDiagrams(r, RemovedAt(t, LineBreaksOf(t, blocks, ks)))

AllDiagramsPanels ==
    {id \in PanelIds : panels[id].state = "open" /\ panels[id].createdBy = "createOrShow"}

\* this step is an edit of the markdown document a.md
EditStep == docVersion' # docVersion

\* C3: with autoRefresh enabled, an edit of a markdown document leaves every
\* open all-diagrams preview panel with a refresh pending, armed with
\* refreshDelay for the edited document (without which the panel is not
\* re-rendered from the latest text once the delay has passed).
C3_EditSchedulesRefresh ==
    [][(EditStep /\ config.autoRefresh) =>
          \A id \in AllDiagramsPanels :
              /\ panels'[id].currentDocument = "a.md"
              /\ \E t \in timers' : t.panel = id /\ t.remaining = config.refreshDelay]_vars

\* this step is a handler calling updateContent(d) on panel id in all mode
UpdateContentStep(id, d) ==
    /\ currentPanel = id
    /\ panels[id].mode = "all"
    /\ \/ EditStep /\ config.autoRefresh /\ d = "a.md"
       \/ activeEditor' # activeEditor /\ activeEditor' = d /\ d # NoDoc
          /\ LanguageId(d) = "markdown"

\* this step is the timer callback rendering open panel id
TimerRenderStep(id) ==
    /\ rendered'.by = "timer"
    /\ rendered'.panel = id
    /\ panels[id].state = "open"

C5_AtMostOneAllDiagramsPanel == Cardinality(AllDiagramsPanels) <= 1

\* the lines of the Preview Diagram lenses of the documents' texts
LineChoices == UNION {ProvideCodeLenses(t) : t \in SampleTexts}

ModeConsistent(panel) ==
    /\ panel.mode \in {"all", "single"}
    /\ panel.mode = "all" => panel.singleLine = NoLine
    /\ panel.mode = "single" => panel.singleLine \in Nat

\* C6: every panel's mode is 'all' or 'single'; mode 'all' implies that
\* _singleLine is undefined and mode 'single' that it is a line number, after
\* construction and after _setMode, _switchToAllMode or _switchToSingleMode.
C6_ModeConsistent ==
    \A id \in PanelIds :
        panels[id].state = "open" =>
            /\ ModeConsistent(panels[id])
            /\ ModeConsistent(SwitchToAllMode(panels[id], "b.md"))
            /\ \A l \in LineChoices : ModeConsistent(SwitchToSingleMode(panels[id], "b.md", l))

\* an all-diagrams panel that createOrShow has switched to all mode again and
\* a single-diagram panel are open
C6_Witness ==
    /\ \E id \in PanelIds :
          /\ panels[id].state = "open"
          /\ panels[id].mode = "single"
          /\ panels[id].singleLine = 6
    /\ \E id \in PanelIds : panels[id].state = "open" /\ panels[id].mode = "all"
    /\ rendered.by = "switchToAllMode"

(***************************************************************************)
(* Mode and theme claims (specification SpecTheme).                        *)
(***************************************************************************)
\* the bodies of the blocks of t that have line l between the line of their
\* opening fence and the line of their closing fence and are not empty
BodiesAtLine(t, l) ==
    SelectSeq(BodiesOf(SelectSeq(Blocks(t, 1),
                  LAMBDA b : LineOfIndex(t, b.open) <= l /\ l <= LineOfIndex(t, b.close))),
              NonEmpty)

DiagramAtLine == [t \in SampleTexts |-> [l \in LineChoices |-> BodiesAtLine(t, l)]]

\* the last step assigned a page to the webview of an open panel that
\* createOrShowSingle created
SinglePanelRendered ==
    /\ rendered.panel # NoPanel
    /\ panels[rendered.panel].state = "open"
    /\ panels[rendered.panel].createdBy = "createOrShowSingle"

\* C7: every render of a panel created by createOrShowSingle (on
\* construction, on a changeTheme message, on a changeAppearance message
\* through refreshAppearance) shows only the diagram found at the panel's
\* line, or the page 'No Mermaid diagram found at this position.'
C7_SinglePanelShowsItsDiagram ==
    SinglePanelRendered =>
        LET panel == panels[rendered.panel]
            found == DiagramAtLine[GetText(panel.currentDocument, docVersion)][panel.singleLine]
        IN  IF found = <<>>
            THEN rendered.html = GetErrorHtml(MsgNoDiagramAtPosition)
            ELSE /\ rendered.html.page = "diagrams"
                 /\ rendered.html.diagrams = <<found[1]>>

\* a changeTheme message has re-rendered the single-diagram panel of the
\* second diagram of a document with two diagrams
C7_Witness ==
    /\ SinglePanelRendered
    /\ rendered.by = "changeTheme"
    /\ rendered.html.diagrams = << <<"B">> >>
    /\ Len(JSONParse(DocumentCode(GetText("a.md", docVersion)).json)) = 2

\* C8: while useVSCodeTheme is false, the Mermaid theme of every render is
\* the one resolved under any other editor color theme.
C8_ThemeIndependentOfEditor ==
    (rendered.html.page = "diagrams" /\ ~config.useVSCodeTheme) =>
        \A kind \in ColorThemeKinds :
            ResolveTheme(rendered.override, config, kind).theme = rendered.html.theme

\* the editor has changed to a dark color theme with useVSCodeTheme off and
\* the preview is re-rendered with the saved theme
C8_Witness ==
    /\ rendered.by = "colorThemeChanged"
    /\ rendered.html.page = "diagrams"
    /\ ~config.useVSCodeTheme
    /\ colorTheme = "Dark"
    /\ rendered.html.theme = "forest"

\* this step is a change of the editor's color theme while the current
\* preview shows diagrams and useVSCodeTheme is on
SyncedThemeChangeStep ==
    /\ colorTheme' # colorTheme
    /\ config.useVSCodeTheme
    /\ currentPanel # NoPanel
    /\ panels[currentPanel].showsDiagrams

FollowsEditor ==
    /\ rendered'.by = "colorThemeChanged"
    /\ rendered'.panel = currentPanel
    /\ rendered'.html.page = "diagrams"
    /\ colorTheme' = "Dark" => rendered'.html.theme = "dark"
    /\ colorTheme' = "Light" => rendered'.html.theme = "default"

ReopenedAfterSave ==
    /\ rendered.by = "constructor"
    /\ rendered.html.page = "diagrams"
    /\ saved # NoTheme
    /\ writes = {}
    /\ \A id \in PanelIds \ {rendered.panel} : panels[id].state # "open"

\* C10 (as stated): after a changeTheme or saveThemePreference message with
\* theme T has been handled and the write completed, a newly opened preview
\* is rendered with theme T.
C10_AsStated == ReopenedAfterSave => rendered.html.theme = saved

\* C10 (amended): ... a newly opened preview is rendered with theme T,
\* provided useVSCodeTheme is off when it opens.
C10_SavedThemeUsedOnReopen ==
    (ReopenedAfterSave /\ ~config.useVSCodeTheme) => rendered.html.theme = saved

\* a preview opened after the write of theme forest is rendered with forest
C10_Witness ==
    /\ ReopenedAfterSave
    /\ ~config.useVSCodeTheme
    /\ saved = "forest"
    /\ rendered.html.theme = "forest"

(***************************************************************************)
(* Refresh and page claims (specification Spec).                           *)
(***************************************************************************)
\* C11: while mermaidPreview.autoRefresh is false, a document change event
\* (of any document, whatever the panels are) arms no refresh timer, renders
\* nothing and leaves every panel, its current document included, as it was.
C11_NoRefreshWhenAutoRefreshOff ==
    [][~config.autoRefresh =>
          /\ EditStep => (UNCHANGED <<panels, timers, currentPanel>> /\ rendered' = NoRender)
          /\ \A d \in Docs :
                ChangeTextDocument(d) =>
                    (UNCHANGED <<panels, timers, currentPanel>> /\ rendered' = NoRender)]_vars

\* autoRefresh is off, a.md has been edited, and the open current preview of
\* a.md still shows its diagrams with no refresh pending
C11_Witness ==
    /\ ~config.autoRefresh
    /\ docVersion["a.md"] = 2
    /\ currentPanel # NoPanel
    /\ panels[currentPanel].state = "open"
    /\ panels[currentPanel].currentDocument = "a.md"
    /\ panels[currentPanel].showsDiagrams
    /\ timers = {}
    /\ calls[currentPanel] = NoCall

\* the non-empty block bodies of each document text
AllDiagrams == [t \in SampleTexts |-> DiagramBodies(t)]

IsNoDocumentPage(html) == html.page = "error" /\ html.message = MsgNoDocument

IsNoDiagramPage(html) ==
    html.page = "error" /\ html.message \in {MsgNoDiagram, MsgNoDiagramAtPosition}

IsDiagramPage(html) == html.page = "diagrams"

\* the diagrams a panel has to show: those of its document in all mode, the
\* one at its line in single mode
DiagramsToShow(panel) ==
    LET t == GetText(panel.currentDocument, docVersion)
    IN  IF panel.mode = "single" /\ panel.singleLine \in LineChoices
        THEN DiagramAtLine[t][panel.singleLine]
        ELSE AllDiagrams[t]

\* html is the page the panel has to show
RightPage(panel, html) ==
    /\ Cardinality({k \in 1..3 : <<IsNoDocumentPage(html), IsNoDiagramPage(html),
                                     IsDiagramPage(html)>>[k]}) = 1
    /\ IsNoDocumentPage(html) <=> panel.currentDocument = NoDoc
    /\ IsNoDiagramPage(html) <=>
          (panel.currentDocument # NoDoc /\ DiagramsToShow(panel) = <<>>)
    /\ IsDiagramPage(html) => html.diagrams # <<>>
    /\ html.message = MsgNoDiagramAtPosition => panel.mode = "single"
    /\ html.message = MsgNoDiagram => panel.mode = "all"

\* C12: every render sets the webview to exactly one of three pages: 'No
\* document to preview' iff the panel has no current document, 'No Mermaid
\* diagram found' iff the document has no mermaid block with a non-empty
\* body (all mode) or none at the panel's line (single mode), the diagram
\* page otherwise, and never with an empty list of diagrams.  (Stated for
\* the page the last step assigned and for the page a render of each open
\* panel, with and without its document, would assign now.)
C12_RenderShowsOneOfThreePages ==
    /\ (rendered.panel # NoPanel /\ panels[rendered.panel].state = "open") =>
           RightPage(panels[rendered.panel], rendered.html)
    /\ \A id \in PanelIds :
           panels[id].state = "open" =>
              \A doc \in {panels[id].currentDocument, NoDoc} :
                 LET panel == [panels[id] EXCEPT !.currentDocument = doc]
                 IN  RightPage(panel, Render(panel, NoTheme, config, colorTheme))

\* the refresh timer has rendered the page 'No Mermaid diagram found' for a
\* document without diagrams while a single-diagram panel shows its diagram
C12_Witness ==
    /\ rendered.by = "timer"
    /\ rendered.html = GetErrorHtml(MsgNoDiagram)
    /\ panels[rendered.panel].state = "open"
    /\ \E id \in PanelIds :
          /\ panels[id].state = "open"
          /\ panels[id].mode = "single"
          /\ panels[id].showsDiagrams

\* C16: while the panel created by createOrShow is open, currentPanel
\* refers to it (creating or closing a single-diagram panel leaves
\* currentPanel as it was).
C16_CurrentPanelTracksAllDiagramsPanel ==
    \A id \in AllDiagramsPanels : currentPanel = id

\* C17: once a panel has been disposed, no later step assigns its webview
\* content; a refresh timer armed before the panel was closed does not fire
\* a render on it.
C17_NoRenderAfterDispose == rendered.html.page # "disposed"

\* the bodies of the blocks of t whose opening fence is on line l
BodiesOpeningAtLine(t, l) ==
    BodiesOf(SelectSeq(Blocks(t, 1), LAMBDA b : LineOfIndex(t, b.open) = l))

LensBlockBodies == [t \in SampleTexts |-> [l \in LineChoices |-> BodiesOpeningAtLine(t, l)]]

\* C20: for every CodeLens that provideCodeLenses places at line L, its
\* command showDiagramAtPosition(L) opens a panel that shows a diagram, the
\* body of the mermaid block whose opening fence is on line L.
C20_CodeLensShowsItsDiagram ==
    (/\ rendered.by = "constructor"
     /\ panels[rendered.panel].state = "open"
     /\ panels[rendered.panel].createdBy = "createOrShowSingle") =>
        LET panel == panels[rendered.panel]
            t == GetText(panel.currentDocument, docVersion)
        IN  /\ panel.singleLine \in ProvideCodeLenses(t)
            /\ rendered.html.page = "diagrams"
            /\ rendered.html.diagrams = LensBlockBodies[t][panel.singleLine]

(***************************************************************************)
(* Extraction and page claims (specification SpecExtract).                 *)
(***************************************************************************)
\* C13: the diagram source handed to the rendering library is the source in
\* the document: for every diagram body extracted from the document (bodies
\* with backslash, grave accent or dollar characters included), the string
\* at the same index of the page script's diagrams array, after the host's
\* escaping and JSON embedding, is exactly that body.
C13_DiagramSourceUnchanged ==
    LET result == ExtractMermaidCode(typedText)
    IN  ~result.isNull =>
           GetHtmlForWebview(result.json, "default", "matchVSCode").diagrams
              = DiagramBodies(typedText)

\* the lines of the typed text, and the one after them
TypedLines == 0..(LineOfIndex(typedText, Len(typedText) + 1) + 1)

\* C18: _extractMermaidCodeAtLine(document, L) returns a one-element JSON
\* array with the trimmed body of the first mermaid block, in document
\* order, that has L between the line of its opening fence and the line of
\* its closing fence and a non-empty trimmed body; null iff there is no such
\* block; an empty block containing L does not stop the search.
C18_ExtractAtLineReturnsFirstBlockAtLine ==
    \A l \in TypedLines :
        LET found == BodiesAtLine(typedText, l)
            result == ExtractMermaidCodeAtLine(typedText, l)
        IN  IF found = <<>> THEN result.isNull
            ELSE /\ ~result.isNull
                 /\ result.json = JSONStringify(<<found[1]>>)
                 /\ JSONParse(result.json) = <<found[1]>>

\* a line of the typed text is in an empty block and in a later block with
\* body a, which is what the extraction at this line returns
C18_Witness ==
    LET blocks == Blocks(typedText, 1)
    IN  /\ Len(blocks) = 2
        /\ blocks[1].body = <<>>
        /\ \E l \in TypedLines :
              /\ LineOfIndex(typedText, blocks[1].open) <= l
              /\ l <= LineOfIndex(typedText, blocks[1].close)
              /\ LineOfIndex(typedText, blocks[2].open) <= l
              /\ ExtractMermaidCodeAtLine(typedText, l) = StringResult(JSONStringify(<< <<"a">> >>))

\* C19: if _extractMermaidCodeAtLine returns a diagram for a line, then
\* _extractMermaidCode of the same document is not null and its array has
\* that diagram string; if _extractMermaidCode is null, then
\* _extractMermaidCodeAtLine is null for every line.
C19_SingleAgreesWithFull ==
    LET full == ExtractMermaidCode(typedText)
    IN  \A l \in TypedLines :
            LET one == ExtractMermaidCodeAtLine(typedText, l)
            IN  /\ ~one.isNull =>
                      /\ ~full.isNull
                      /\ Len(JSONParse(one.json)) = 1
                      /\ \E k \in 1..Len(JSONParse(full.json)) :
                            JSONParse(full.json)[k] = JSONParse(one.json)[1]
                /\ full.isNull => one.isNull

\* the body of the typed text's block has whitespace around it, and the
\* extraction at a line and the extraction of the document both return it
\* trimmed
C19_Witness ==
    LET matches == MatchAll(typedText, 1)
    IN  /\ Len(matches) = 1
        /\ matches[1].group # Trim(matches[1].group)
        /\ ExtractMermaidCode(typedText) = StringResult(JSONStringify(<< <<"a">> >>))
        /\ \E l \in TypedLines :
              ExtractMermaidCodeAtLine(typedText, l) = ExtractMermaidCode(typedText)

(***************************************************************************)
(* Export claim (specification SpecExport).                                *)
(***************************************************************************)
\* the bytes that the base64 data of the messages stand for
DecodedSamples ==
    [d \in ExportData |->
        IF d = <<"Q", "Q", "=", "=">> THEN <<65>>
        ELSE IF d = <<"Q", "U", "I", "=">> THEN <<65, 66>>
        ELSE <<65, 66, 67>>]

\* C14: for every exportDiagram message: if the user cancels the save dialog,
\* no file is written and no message is shown; if a target is chosen, the
\* base64-decoded data is written to it once and exactly one notification
\* follows, an information message if the write succeeds or an error message
\* if it fails, never both; the suggested file name is
\* mermaid-diagram-(index+1).format.
C14_ExportOutcome ==
    \A j \in DOMAIN exports :
        LET job == exports[j]
            notes == job.infos + job.errors
        IN  /\ job.suggested = <<"mermaid-diagram-", job.index + 1, ".", job.format>>
            /\ job.stage = "dialog" => (job.writeCalls = 0 /\ notes = 0 /\ ~job.stored)
            /\ (job.stage = "done" /\ job.target = NoTarget) =>
                   (job.writeCalls = 0 /\ notes = 0 /\ ~job.stored)
            /\ job.stage = "writing" => (job.target # NoTarget /\ notes = 0)
            /\ job.target # NoTarget =>
                   (job.writeCalls = 1 /\ job.content = DecodedSamples[job.data])
            /\ (job.stage = "done" /\ job.target # NoTarget) =>
                   /\ notes = 1
                   /\ job.stored <=> job.infos = 1
                   /\ ~job.stored <=> job.errors = 1

\* one export was cancelled, another has written the byte of its data
\* to the suggested file and shown its information message
C14_Witness ==
    /\ Len(exports) = 2
    /\ exports[1].stage = "done"
    /\ exports[1].target = NoTarget
    /\ exports[2].stage = "done"
    /\ exports[2].target = exports[2].suggested
    /\ exports[2].format = "svg"
    /\ exports[2].content = <<65>>
    /\ exports[2].stored
    /\ exports[2].infos = 1

(***************************************************************************)
(* Zoom claim (specification SpecZoom).                                    *)
(***************************************************************************)
\* C15: after any sequence of zoomIn, zoomOut, zoomReset and wheel events
\* the zoom level is within [0.5, 5.0]; zoomIn and zoomOut change it by one
\* step of 0.1 unless that would cross a limit; a wheel event without Ctrl
\* leaves it unchanged; zoomReset restores zoom 1.0 and pan offset (0, 0).
C15_ZoomBounded ==
    \A id \in PanelIds :
        LET v == view[id]
            z == v.currentZoom
        IN  /\ z \in 5..50
            /\ ZoomIn(v).currentZoom = (IF z + 1 <= 50 THEN z + 1 ELSE z)
            /\ ZoomOut(v).currentZoom = (IF z - 1 >= 5 THEN z - 1 ELSE z)
            /\ \A deltaY \in {-1, 1} : HandleWheel(v, FALSE, deltaY) = v
            /\ HandleWheel(v, TRUE, -1) = ZoomIn(v)
            /\ HandleWheel(v, TRUE, 1) = ZoomOut(v)
            /\ ZoomReset(v).currentZoom = 10
            /\ ZoomReset(v).panX = 0
            /\ ZoomReset(v).panY = 0

\* the preview is zoomed to 5.0 and panned
C15_Witness ==
    \E id \in PanelIds :
        /\ panels[id].state = "open"
        /\ view[id].currentZoom = 50
        /\ view[id].panX # 0
        /\ view[id].panY # 0

(***************************************************************************)
(* Theme and appearance claims (specification SpecTheme).                  *)
(***************************************************************************)
\* the rows of the theme table: result is what a render with this override
\* shows under configuration cfg and editor color theme kind
ThemeTable(override, cfg, kind, result) ==
    /\ override # NoTheme => result.theme = override
    /\ (override = NoTheme /\ ~cfg.useVSCodeTheme) => result.theme = cfg.theme
    /\ (override = NoTheme /\ cfg.useVSCodeTheme) =>
          /\ cfg.previewAppearance = "light" => result.theme = "default"
          /\ cfg.previewAppearance = "dark" => result.theme = "dark"
          /\ cfg.previewAppearance = "matchVSCode" =>
                /\ result.theme = "dark" <=> kind = "Dark"
                /\ kind # "Dark" => result.theme = "default"
    /\ result.appearance = cfg.previewAppearance

\* C21: every diagram page is rendered with the theme of the theme table
\* (the override if there is one; else the configured theme when
\* useVSCodeTheme is off; else 'default' for appearance light, 'dark' for
\* dark, and for matchVSCode 'dark' iff the editor's color theme is Dark),
\* and with the configured previewAppearance.
C21_ThemeResolutionTable ==
    rendered.html.page = "diagrams" =>
        ThemeTable(rendered.override, config, colorTheme,
                   [theme |-> rendered.html.theme, appearance |-> rendered.html.appearance])

\* a changeTheme message is rendered with its theme while useVSCodeTheme is
\* on, the appearance is dark and the configured theme is another one
C21_Witness ==
    /\ rendered.by = "changeTheme"
    /\ rendered.override = "forest"
    /\ config.useVSCodeTheme
    /\ config.previewAppearance = "dark"
    /\ config.theme = "default"
    /\ rendered.html.page = "diagrams"
    /\ rendered.html.theme = "forest"
    /\ rendered.html.appearance = "dark"

\* C22: handling a changeTheme(T) message requests the writes
\* useVSCodeTheme = false and theme = T and, in the same step and with the
\* configuration still as it was, re-renders the panel in its mode with
\* theme T and the configured appearance.
C22_ThemeChangeRendersAtOnce ==
    [][\A id \in PanelIds, th \in MessageThemes :
          HandleThemeChange(id, th) =>
             /\ Write("useVSCodeTheme", "false", NoPanel) \in writes'
             /\ Write("theme", th, NoPanel) \in writes'
             /\ config' = config
             /\ rendered'.by = "changeTheme"
             /\ rendered'.panel = id
             /\ rendered'.html.page = "diagrams"
             /\ rendered'.html.theme = th
             /\ rendered'.html.appearance = config.previewAppearance
             /\ panels'[id].mode = panels[id].mode
             /\ panels'[id].singleLine = panels[id].singleLine
             /\ Len(rendered'.html.diagrams) = Len(DiagramsToShow(panels[id]))]_vars

\* a single-diagram panel has been re-rendered with theme forest by a
\* changeTheme message while useVSCodeTheme is still on, the configured theme
\* is still default, and both writes are pending
C22_Witness ==
    /\ rendered.by = "changeTheme"
    /\ panels[rendered.panel].mode = "single"
    /\ Len(rendered.html.diagrams) = 1
    /\ rendered.html.theme = "forest"
    /\ config.useVSCodeTheme
    /\ config.theme = "default"
    /\ writes = {Write("useVSCodeTheme", "false", NoPanel), Write("theme", "forest", NoPanel)}

\* the page assigned by this step, if it is a diagram page, has appearance ap
RendersWithAppearance(ap) ==
    rendered'.html.page = "diagrams" => rendered'.html.appearance = ap

\* C23: the step that handles a changeAppearance(A) message renders nothing
\* and leaves the configuration as it is; the handler's render comes after
\* its write of previewAppearance = A has completed and uses appearance A,
\* as does the render the completed write's configuration-change event
\* makes on the current panel; a step that changes the configuration but not
\* previewAppearance renders nothing.
C23_AppearanceRenderedAfterWrite ==
    [][/\ \A id \in PanelIds, ap \in Appearances :
             HandleAppearanceChange(id, ap) => (rendered' = NoRender /\ config' = config)
       /\ \A id \in PanelIds :
             AppearanceChangeResumes(id) =>
                \A w \in awaiting :
                   w.cont = id =>
                      /\ w \notin writes
                      /\ config.previewAppearance = w.value
                      /\ rendered'.by = "changeAppearance"
                      /\ rendered'.panel = id
                      /\ RendersWithAppearance(w.value)
       /\ \A w \in writes :
             (w.key = "previewAppearance" /\ ConfigWriteCompletes(w)) =>
                /\ config'.previewAppearance = w.value
                /\ rendered' # NoRender =>
                      /\ rendered'.by = "configChanged"
                      /\ rendered'.panel = currentPanel
                      /\ RendersWithAppearance(w.value)
       /\ (config' # config /\ config'.previewAppearance = config.previewAppearance) =>
             rendered' = NoRender]_vars

\* a single-diagram panel that is not the current panel has been re-rendered
\* by its changeAppearance handler with the appearance dark it wrote
C23_Witness ==
    /\ rendered.by = "changeAppearance"
    /\ rendered.panel # currentPanel
    /\ currentPanel # NoPanel
    /\ rendered.html.page = "diagrams"
    /\ rendered.html.appearance = "dark"
    /\ config.previewAppearance = "dark"
    /\ writes = {}
    /\ awaiting = {}

(***************************************************************************)
(* Editor-event and command claims (specification Spec).                   *)
(***************************************************************************)
\* this step leaves every panel's document, the timers and the pages alone
NoPreviewChange == UNCHANGED <<panels, timers, currentPanel>> /\ rendered' = NoRender

\* after this step the current panel has document e and a refresh timer
\* armed with refreshDelay
RefreshArmedFor(e) ==
    /\ panels'[currentPanel].currentDocument = e
    /\ \E t \in timers' :
          /\ t.panel = currentPanel
          /\ t.id = panels'[currentPanel].updateTimeout
          /\ t.remaining = config.refreshDelay
    /\ Cardinality(TimersOf(timers', currentPanel)) = 1
    /\ calls'[currentPanel].doc = e
    /\ calls'[currentPanel].since = 0

\* C24: a document-change event of a document that is not Markdown, and an
\* active-editor change to such a document or to no editor, leave every
\* panel's document, the timers and the pages as they were; an
\* active-editor change to a Markdown document while there is a current
\* panel gives the panel that document and arms its refresh, whatever
\* autoRefresh is.
C24_OnlyMarkdownDrivesPreview ==
    [][/\ \A d \in Docs :
             (LanguageId(d) # "markdown" /\ ChangeTextDocument(d)) => NoPreviewChange
       /\ \A e \in Docs \cup {NoDoc} :
             ((e = NoDoc \/ LanguageId(e) # "markdown") /\ ChangeActiveTextEditor(e)) =>
                NoPreviewChange
       /\ \A e \in Docs :
             (LanguageId(e) = "markdown" /\ currentPanel # NoPanel /\ ChangeActiveTextEditor(e)) =>
                RefreshArmedFor(e)]_vars

\* with autoRefresh off the current preview of a.md has been given b.md by an
\* active-editor change and has its refresh armed; then the editor of the
\* text file has become active and has left that as it was
C24_Witness ==
    /\ ~config.autoRefresh
    /\ activeEditor = "c.txt"
    /\ currentPanel # NoPanel
    /\ panels[currentPanel].currentDocument = "b.md"
    /\ \E t \in timers : t.panel = currentPanel /\ t.remaining = config.refreshDelay
    /\ calls[currentPanel].doc = "b.md"
    /\ calls[currentPanel].since = 0
    /\ rendered = NoRender

\* C25: a showPreview or showPreviewToSide command given while there is a
\* current panel creates no panel and leaves currentPanel as it is; the
\* current panel ends in all mode with no single line and with the active
\* editor's document, is rendered in this very step with the page of that
\* document (no timer is armed or cancelled for it), and is revealed in the
\* command's view column.
C25_CreateOrShowReusesCurrentPanel ==
    [][\A viewColumn \in ViewColumns :
          (currentPanel # NoPanel /\ ShowPreviewIn(viewColumn)) =>
             /\ \A id \in PanelIds : panels'[id].state = panels[id].state
             /\ \A id \in PanelIds \ {currentPanel} : panels'[id] = panels[id]
             /\ currentPanel' = currentPanel
             /\ panels'[currentPanel].mode = "all"
             /\ panels'[currentPanel].singleLine = NoLine
             /\ panels'[currentPanel].currentDocument = activeEditor
             /\ rendered'.panel = currentPanel
             /\ rendered'.doc = activeEditor
             /\ RightPage(panels'[currentPanel], rendered'.html)
             /\ IsDiagramPage(rendered'.html) =>
                   Len(rendered'.html.diagrams) = Len(AllDiagrams[GetText(activeEditor, docVersion)])
             /\ timers' = timers
             /\ rendered'.revealed = viewColumn]_vars

\* showPreviewToSide has switched the current preview, whose refresh for
\* a.md is still pending, to the text file of the active editor and has
\* rendered and revealed it
C25_Witness ==
    /\ rendered.by = "switchToAllMode"
    /\ rendered.panel = currentPanel
    /\ rendered.revealed = "Beside"
    /\ activeEditor = "c.txt"
    /\ panels[currentPanel].currentDocument = "c.txt"
    /\ rendered.html.page = "diagrams"
    /\ calls[currentPanel].doc = "a.md"
    /\ \E t \in timers : t.panel = currentPanel

(***************************************************************************)
(* Webview export claim (specification SpecWebview).                       *)
(***************************************************************************)
\* the messages call c has posted are what its stage asks for: none without
\* an svg element and none while the image is made; once the call is over,
\* one message, either exportDiagram with data, the call's format and the
\* index that was active at the call, or exportError
RepliedAsRequested(c) ==
    /\ ~c.svgEl => (c.state = "returned" /\ c.replies = <<>>)
    /\ c.svgEl => c.state \in {"raster", "done"}
    /\ c.state = "raster" => (c.replies = <<>> /\ c.format # "svg")
    /\ c.state = "done" =>
          /\ Len(c.replies) = 1
          /\ \/ c.replies[1] = [command |-> "exportDiagram", format |-> c.format,
                                 data |-> <<"base64", c.index, c.format>>,
                                 index |-> c.index]
             \/ c.replies[1].command = "exportError"

\* every export call of every page has posted what its stage asks for
RepliesAsRequested ==
    \A id \in PanelIds :
        \A r \in DOMAIN view[id].exportCalls : RepliedAsRequested(view[id].exportCalls[r])

\* a call that is making its image is, after this step, still making it or
\* over
RasterCallsGoOn ==
    \A id \in PanelIds :
        \A r \in DOMAIN view[id].exportCalls :
            view[id].exportCalls[r].state = "raster" =>
                /\ r \in DOMAIN view'[id].exportCalls
                /\ view'[id].exportCalls[r].state \in {"raster", "done"}

\* C26: every exportActiveDiagram call made while the active diagram has an
\* svg element posts exactly one message, exportDiagram (with the data, the
\* format and the active index) or exportError, never both and never
\* neither (a call that has not posted yet goes on until it does); a call
\* made without an svg element posts nothing.
C26_ExactlyOneReplyPerRequest == [][RepliesAsRequested' /\ RasterCallsGoOn]_vars

====
